---- MODULE Spec2Model ----
(***************************************************************************)
(* A model of the GameClient class of src/game.js: the keyboard intent     *)
(* tracker, the WebSocket connection life cycle with linear reconnect      *)
(* backoff, the handlers of the four inbound protocol messages, the avatar *)
(* image cache and the camera (viewport) clamp.                            *)
(*                                                                         *)
(* The browser is single threaded: every callback (key event, socket       *)
(* event, timer, image load, inbound message) runs to completion, so each  *)
(* callback is one atomic action.                                          *)
(***************************************************************************)
EXTENDS Integers, Sequences, FiniteSets, Bags, TLC

VARIABLES
    players,            \* this.players: player id -> player record
    playerKeys,         \* Object.keys(this.players): the ids in property order
    avatars,            \* this.avatars: avatar name -> avatar record
    myPlayerId,         \* this.myPlayerId (Null before the first join)
    myPlayer,           \* this.myPlayer (NoPlayer while null / undefined)
    avatarImageCache,   \* this.avatarImageCache: cache key -> decoded image
    viewport,           \* this.viewport: [x, y, width, height]
    sockets,            \* readyState of every WebSocket constructed so far
    ws,                 \* this.ws: index into sockets (0 while null)
    reconnectAttempts,  \* this.reconnectAttempts
    pressedKeys,        \* this.pressedKeys
    timers,             \* pending setTimeout callbacks, by their delay
    decoding,           \* Image objects whose src is set and not yet settled
    renderLoops,        \* live requestAnimationFrame chains
    ev,                 \* history: the callback that ran last, with its input
    out,                \* history: what that callback passed to ws.send
    delays,             \* history: every delay handed to setTimeout, in order
    opens,              \* history: number of onopen callbacks so far
    failed,             \* history: cache keys of images whose decode failed
    prev                \* history: this.players before the last inbound message

vars == <<players, playerKeys, avatars, myPlayerId, myPlayer, avatarImageCache, viewport,
          sockets, ws, reconnectAttempts, pressedKeys, timers, decoding,
          renderLoops, ev, out, delays, opens, failed, prev>>

entityVars == <<players, playerKeys, avatars, myPlayerId, myPlayer, viewport>>
spriteVars == <<avatarImageCache, decoding, failed>>
connVars   == <<sockets, ws, reconnectAttempts, timers, delays, opens>>

-----------------------------------------------------------------------------
(* Bounds of the exploration.                                              *)

\* onopen callbacks explored per run (each one resets the attempt counter)
MaxOpens == 2
\* images of one cache key that may be decoding at the same time
MaxInFlight == 2
\* requestAnimationFrame chains explored per run
MaxLoops == 2

-----------------------------------------------------------------------------
(* Program constants.                                                      *)

worldWidth == 2048
worldHeight == 2048
maxReconnectAttempts == 5
baseDelay == 2000

\* this.movementKeys
movementKeys ==
    [c \in {"ArrowUp", "ArrowDown", "ArrowLeft", "ArrowRight"} |->
        CASE c = "ArrowUp"    -> "up"
          [] c = "ArrowDown"  -> "down"
          [] c = "ArrowLeft"  -> "left"
          [] c = "ArrowRight" -> "right"]

\* event.code values delivered by the browser: the four tracked codes and
\* one code that is not a movement key
KeyCodes == DOMAIN movementKeys \cup {"Space"}

Null == "null"
NoPlayer == [undefined |-> TRUE]

-----------------------------------------------------------------------------
(* Outbound intents.                                                       *)

\* WebSocket.OPEN test of sendMoveCommand / sendStopCommand
IsOpen == ws # 0 /\ sockets[ws] = "OPEN"

SendMoveCommandUnguarded(direction) ==
    <<[action |-> "move", direction |-> direction]>>

\* sendMoveCommand: the messages handed to ws.send
SendMoveCommand(direction) ==
    IF IsOpen
    THEN <<[action |-> "move", direction |-> direction]>>
    ELSE <<>>

\* sendStopCommand: the messages handed to ws.send
SendStopCommand ==
    IF IsOpen THEN <<[action |-> "stop"]>> ELSE <<>>

\* joinGame
JoinGame == <<[action |-> "join_game", username |-> "Dawn"]>>

-----------------------------------------------------------------------------
(* Keyboard.                                                               *)

\* handleKeyDown
HandleKeyDown(code) ==
    /\ ev' = [type |-> "keydown", code |-> code]
    /\ IF code \in DOMAIN movementKeys
       THEN /\ pressedKeys' = pressedKeys \cup {code}
            /\ out' = SendMoveCommand(movementKeys[code])
       ELSE /\ pressedKeys' = pressedKeys
            /\ out' = <<>>
    /\ UNCHANGED <<prev, entityVars, spriteVars, connVars, renderLoops>>

StopAfterKeyUpAlways(held) == SendStopCommand

\* the size test of handleKeyUp, on the held set left by the delete
StopAfterKeyUp(held) ==
    IF Cardinality(held) = 0 THEN SendStopCommand ELSE <<>>

\* handleKeyUp
HandleKeyUp(code) ==
    /\ ev' = [type |-> "keyup", code |-> code]
    /\ IF code \in DOMAIN movementKeys
       THEN /\ pressedKeys' = pressedKeys \ {code}
            /\ out' = StopAfterKeyUp(pressedKeys \ {code})
       ELSE /\ pressedKeys' = pressedKeys
            /\ out' = <<>>
    /\ UNCHANGED <<prev, entityVars, spriteVars, connVars, renderLoops>>

-----------------------------------------------------------------------------
(* Connection life cycle.                                                  *)

ReconnectDelayFlat(attempt) == baseDelay

\* the delay expression of attemptReconnect: 2000 * this.reconnectAttempts
ReconnectDelay(attempt) == baseDelay * attempt

AttemptsAfterOpenKept(n) == n

\* onopen: this.reconnectAttempts = 0
AttemptsAfterOpen(n) == 0

\* connectToServer: new WebSocket(url); the constructor does not throw for
\* the fixed, well-formed wss URL, so the catch branch is never taken
ConnectToServer ==
    /\ sockets' = Append(sockets, "CONNECTING")
    /\ ws' = Len(sockets) + 1

\* ws.onopen of socket i
WsOpen(i) ==
    /\ sockets[i] = "CONNECTING"
    /\ opens < MaxOpens
    /\ sockets' = [sockets EXCEPT ![i] = "OPEN"]
    /\ reconnectAttempts' = AttemptsAfterOpen(reconnectAttempts)
    /\ opens' = opens + 1
    /\ ev' = [type |-> "open", socket |-> i]
    /\ out' = JoinGame
    /\ UNCHANGED <<prev, entityVars, spriteVars, ws, timers, delays, pressedKeys,
                   renderLoops>>

ScheduleReconnectTwice(pending, delay) ==
    Append(Append(pending, delay), delay)

\* setTimeout(() => this.connectToServer(), delay)
ScheduleReconnect(pending, delay) == Append(pending, delay)

\* ws.onclose of socket i (after a failed connect or a lost connection):
\* attemptReconnect
WsClose(i) ==
    /\ sockets[i] \in {"CONNECTING", "OPEN"}
    /\ sockets' = [sockets EXCEPT ![i] = "CLOSED"]
    /\ IF reconnectAttempts < maxReconnectAttempts
       THEN /\ reconnectAttempts' = reconnectAttempts + 1
            /\ timers' = ScheduleReconnect(timers,
                              ReconnectDelay(reconnectAttempts + 1))
            /\ delays' = Append(delays, ReconnectDelay(reconnectAttempts + 1))
       ELSE UNCHANGED <<reconnectAttempts, timers, delays>>
    /\ ev' = [type |-> "close", socket |-> i]
    /\ out' = <<>>
    /\ UNCHANGED <<prev, entityVars, spriteVars, ws, opens, pressedKeys,
                   renderLoops>>

RemoveAt(s, k) == [j \in 1..(Len(s) - 1) |-> IF j < k THEN s[j] ELSE s[j + 1]]

\* the setTimeout callback of attemptReconnect: connectToServer
TimerFire(k) ==
    /\ k \in 1..Len(timers)
    /\ timers' = RemoveAt(timers, k)
    /\ ConnectToServer
    /\ ev' = [type |-> "timer", delay |-> timers[k]]
    /\ out' = <<>>
    /\ UNCHANGED <<prev, entityVars, spriteVars, reconnectAttempts, delays, opens,
                   pressedKeys, renderLoops>>

-----------------------------------------------------------------------------
(* Camera.                                                                 *)

Max(a, b) == IF a >= b THEN a ELSE b
Min(a, b) == IF a <= b THEN a ELSE b

ClampViewportToWorldMissing(vp) == vp

\* clampViewportToWorld
ClampViewportToWorld(vp) ==
    [vp EXCEPT !.x = Max(0, Min(vp.x, worldWidth - vp.width)),
               !.y = Max(0, Min(vp.y, worldHeight - vp.height))]

\* centerViewportOnPlayer, for this.myPlayer = player; the world and canvas
\* sizes are even, so width / 2 and height / 2 are whole numbers
CenterViewportOnPlayer(vp, player) ==
    IF player = NoPlayer
    THEN vp
    ELSE ClampViewportToWorld(
             [vp EXCEPT !.x = player.x - (vp.width \div 2),
                        !.y = player.y - (vp.height \div 2)])

-----------------------------------------------------------------------------
(* Avatar image cache.                                                     *)

\* String(frameIndex) inside the template literal
DigitString(i) ==
    CASE i = 0 -> "0" [] i = 1 -> "1" [] i = 2 -> "2" [] i = 3 -> "3"
      [] i = 4 -> "4" [] i = 5 -> "5" [] i = 6 -> "6" [] i = 7 -> "7"
      [] i = 8 -> "8" [] i = 9 -> "9"

\* `${avatar.name}_${direction}_${frameIndex}`
CacheKey(name, direction, frameIndex) ==
    name \o "_" \o direction \o "_" \o DigitString(frameIndex)

\* !this.avatarImageCache[cacheKey]
NotCached(cache, key) == key \notin DOMAIN cache

\* preloadAvatarImages(avatar): the Image objects it creates, as the set of
\* [key, src] pairs (within one call every key is distinct)
PreloadAvatarImages(avatar, cache) ==
    IF "frames" \notin DOMAIN avatar
    THEN {}
    ELSE UNION {
             {[key |-> CacheKey(avatar.name, d, k - 1),
               src |-> avatar.frames[d][k]] :
                  k \in {k \in 1..Len(avatar.frames[d]) :
                            NotCached(cache, CacheKey(avatar.name, d, k - 1))}} :
             d \in DOMAIN avatar.frames}

\* number of images in flight for one cache key
InFlight(dec, key) ==
    LET RECURSIVE Sum(_)
        Sum(S) == IF S = {} THEN 0
                  ELSE LET e == CHOOSE e \in S : TRUE
                       IN (IF e.key = key THEN CopiesIn(e, dec) ELSE 0)
                              + Sum(S \ {e})
    IN Sum(BagToSet(dec))

\* the images in flight after a handler has run preloadAvatarImages for
\* every avatar of the name -> avatar table avs (Object.values(...).forEach)
StartDecodes(dec, avs, cache) ==
    LET RECURSIVE Go(_, _)
        Go(d, names) ==
            IF names = {} THEN d
            ELSE LET n == CHOOSE n \in names : TRUE
                 IN Go(d (+) SetToBag(PreloadAvatarImages(avs[n], cache)),
                       names \ {n})
    IN Go(dec, DOMAIN avs)

\* img.onload of an image e = [key, src] in flight
ImageLoad(e) ==
    /\ BagIn(e, decoding)
    /\ avatarImageCache' =
           [key \in DOMAIN avatarImageCache \cup {e.key} |->
               IF key = e.key THEN [image |-> e.src]
               ELSE avatarImageCache[key]]
    /\ decoding' = decoding (-) SetToBag({e})
    /\ ev' = [type |-> "load", key |-> e.key]
    /\ out' = <<>>
    /\ UNCHANGED <<prev, entityVars, connVars, pressedKeys, renderLoops, failed>>

\* a decode failure of an image e in flight: the code installs no onerror
\* handler, so nothing of the program state changes
ImageError(e) ==
    /\ BagIn(e, decoding)
    /\ decoding' = decoding (-) SetToBag({e})
    /\ failed' = failed \cup {e.key}
    /\ ev' = [type |-> "error", key |-> e.key]
    /\ out' = <<>>
    /\ UNCHANGED <<prev, entityVars, connVars, pressedKeys, renderLoops,
                   avatarImageCache>>

-----------------------------------------------------------------------------
(* Rendering of one player (drawPlayer), as far as it decides what is      *)
(* drawn and whether the frame throws.                                     *)

NoFrame == "undefined"

\* animationFrame || 0
FrameOrZero(player) ==
    IF "animationFrame" \in DOMAIN player THEN player.animationFrame ELSE 0

\* getAvatarFrame(avatar, facing, animationFrame): the frame source, or
\* NoFrame for null / undefined
GetAvatarFrame(avatar, player) ==
    IF "frames" \notin DOMAIN avatar THEN NoFrame
    ELSE LET direction == IF "facing" \notin DOMAIN player THEN "undefined"
                          ELSE IF player.facing = "west" THEN "east"
                          ELSE player.facing
         IN IF direction \notin DOMAIN avatar.frames THEN NoFrame
            ELSE LET frames == avatar.frames[direction]
                     frameIndex == Min(FrameOrZero(player), Len(frames) - 1)
                 IN IF frameIndex < 0 THEN NoFrame ELSE frames[frameIndex + 1]

\* the cacheKey computed by drawPlayer
DrawCacheKey(avatar, player) ==
    CacheKey(avatar.name,
             IF "facing" \in DOMAIN player THEN player.facing ELSE "undefined",
             FrameOrZero(player))

\* the viewport culling test of drawPlayer
Culled(player, vp) ==
    LET screenX == player.x - vp.x
        screenY == player.y - vp.y
    IN \/ screenX < -50 \/ screenX > vp.width + 50
       \/ screenY < -50 \/ screenY > vp.height + 50

\* drawPlayer(player): [image: the cached image drawn or NoFrame,
\* mirrored: drawn flipped, threw: drawPlayerLabel raised a TypeError
\* (player.id.substring on a record without id)]
DrawPlayer(player, avs, cache, vp) ==
    LET skip == [image |-> NoFrame, mirrored |-> FALSE, threw |-> FALSE]
    IN IF "avatar" \notin DOMAIN player \/ player.avatar \notin DOMAIN avs
       THEN skip
       ELSE LET avatar == avs[player.avatar]
            IN IF Culled(player, vp) THEN skip
               ELSE IF GetAvatarFrame(avatar, player) = NoFrame THEN skip
               ELSE IF DrawCacheKey(avatar, player) \notin DOMAIN cache
               THEN skip
               ELSE [image |-> cache[DrawCacheKey(avatar, player)].image,
                     mirrored |-> player.facing = "west",
                     threw |-> "id" \notin DOMAIN player]

\* drawPlayers: Object.values(this.players).forEach(drawPlayer) visits the
\* players in property order (keys) and ends at the first call that throws;
\* the number of drawPlayer calls made
DrawPlayers(keys, pls, avs, cache, vp) ==
    LET throwing == {i \in 1..Len(keys) :
                        DrawPlayer(pls[keys[i]], avs, cache, vp).threw}
    IN IF throwing = {} THEN Len(keys)
       ELSE CHOOSE i \in throwing : \A j \in throwing : i <= j

\* render(): TRUE when some drawPlayer call throws, which ends the frame
\* before requestAnimationFrame is reached
RenderThrows(keys, pls, avs, cache, vp) ==
    \E i \in 1..Len(keys) : DrawPlayer(pls[keys[i]], avs, cache, vp).threw

\* the players whose sprite one render() draws: those of the drawPlayer
\* calls made that reach ctx.drawImage (the call that throws has drawn its
\* sprite before drawPlayerLabel raises)
Drawn(keys, pls, avs, cache, vp) ==
    {keys[i] : i \in {i \in 1..DrawPlayers(keys, pls, avs, cache, vp) :
                          DrawPlayer(pls[keys[i]], avs, cache, vp).image
                              # NoFrame}}

\* the requestAnimationFrame callback of one live chain (startRenderLoop's
\* render closure): this.render(), then requestAnimationFrame(render); an
\* exception in render() leaves the chain without a next frame
RenderFrame ==
    /\ renderLoops > 0
    /\ renderLoops' =
           IF RenderThrows(playerKeys, players, avatars, avatarImageCache,
                           viewport)
           THEN renderLoops - 1
           ELSE renderLoops
    /\ ev' = [type |-> "frame",
              drawn |-> Drawn(playerKeys, players, avatars,
                              avatarImageCache, viewport),
              threw |-> RenderThrows(playerKeys, players, avatars,
                                     avatarImageCache, viewport)]
    /\ out' = <<>>
    /\ UNCHANGED <<prev, entityVars, spriteVars, connVars, pressedKeys>>

-----------------------------------------------------------------------------
(* Inbound messages.                                                       *)

ObjectAssignFieldwise(target, source) ==
    [id \in DOMAIN target \cup DOMAIN source |->
        IF id \notin DOMAIN source THEN target[id]
        ELSE IF id \notin DOMAIN target THEN source[id]
        ELSE [f \in DOMAIN target[id] \cup DOMAIN source[id] |->
                 IF f \in DOMAIN source[id] THEN source[id][f]
                 ELSE target[id][f]]]

ObjectAssignReplacing(target, source) == source

\* Object.assign(target, source) on two id -> record tables
ObjectAssign(target, source) ==
    [id \in DOMAIN target \cup DOMAIN source |->
        IF id \in DOMAIN source THEN source[id] ELSE target[id]]

\* target[key] = value
Put(target, key, value) ==
    [k \in DOMAIN target \cup {key} |-> IF k = key THEN value ELSE target[k]]

DeleteClearing(target, key) == <<>>

\* delete target[key]
Delete(target, key) == [k \in DOMAIN target \ {key} |-> target[k]]

\* the elements of a sequence
Range(s) == {s[i] : i \in 1..Len(s)}

\* Object.keys(target) after Object.assign(target, source): the ids are not
\* integer-like, so a key that target has keeps its place and the new keys
\* follow in the order of source
KeysAfterAssign(keys, sourceKeys) ==
    keys \o SelectSeq(sourceKeys, LAMBDA k : k \notin Range(keys))

\* Object.keys(target) after target[key] = value
KeysAfterPut(keys, key) == KeysAfterAssign(keys, <<key>>)

\* Object.keys(target) after delete target[key]
KeysAfterDelete(keys, key) == SelectSeq(keys, LAMBDA k : k # key)

JoinAppliesWithoutSuccess(message) == "players" \in DOMAIN message

\* if (message.success)
JoinApplies(message) == message.success

ReplaceTableMerging(old, snapshot) == ObjectAssign(old, snapshot)

\* this.players = message.players / this.avatars = message.avatars
ReplaceTable(old, snapshot) == snapshot

\* handleJoinGameResponse
HandleJoinGameResponse(message, keys) ==
    IF JoinApplies(message)
    THEN LET me == IF message.playerId \in DOMAIN message.players
                   THEN message.players[message.playerId]
                   ELSE NoPlayer
             vp == CenterViewportOnPlayer(viewport, me)
         IN /\ myPlayerId' = message.playerId
            /\ players' = ReplaceTable(players, message.players)
            /\ playerKeys' = keys
            /\ avatars' = ReplaceTable(avatars, message.avatars)
            /\ myPlayer' = me
            /\ decoding' = StartDecodes(decoding, message.avatars,
                                        avatarImageCache)
            \* this.myPlayer.x in the console.log throws when the snapshot
            \* does not hold the local player: the handler ends there
            /\ IF me = NoPlayer
               THEN UNCHANGED <<viewport, renderLoops>>
               ELSE /\ viewport' = vp
                    \* startRenderLoop: the first frame runs at once and
                    \* the chain exists only if that frame returns
                    /\ renderLoops' =
                           IF RenderThrows(keys, message.players,
                                           message.avatars,
                                           avatarImageCache, vp)
                           THEN renderLoops
                           ELSE renderLoops + 1
    ELSE UNCHANGED <<entityVars, decoding, renderLoops>>

\* handlePlayerJoined
HandlePlayerJoined(message) ==
    /\ players' = Put(players, message.player.id, message.player)
    /\ playerKeys' = KeysAfterPut(playerKeys, message.player.id)
    /\ avatars' = Put(avatars, message.avatar.name, message.avatar)
    /\ decoding' = decoding (+)
           SetToBag(PreloadAvatarImages(message.avatar, avatarImageCache))
    /\ UNCHANGED <<myPlayerId, myPlayer, viewport, renderLoops>>

LocalPlayerMovedNever(id, delta) == FALSE

\* this.myPlayerId && message.players[this.myPlayerId]
LocalPlayerMoved(id, delta) == id # Null /\ id \in DOMAIN delta

\* handlePlayersMoved
HandlePlayersMoved(message, keys) ==
    /\ players' = ObjectAssign(players, message.players)
    /\ playerKeys' = KeysAfterAssign(playerKeys, keys)
    /\ IF LocalPlayerMoved(myPlayerId, message.players)
       THEN /\ myPlayer' = message.players[myPlayerId]
            /\ viewport' = CenterViewportOnPlayer(viewport,
                                                  message.players[myPlayerId])
       ELSE UNCHANGED <<myPlayer, viewport>>
    /\ UNCHANGED <<avatars, myPlayerId, decoding, renderLoops>>

\* handlePlayerLeft
HandlePlayerLeft(message) ==
    /\ players' = Delete(players, message.playerId)
    /\ playerKeys' = KeysAfterDelete(playerKeys, message.playerId)
    /\ UNCHANGED <<avatars, myPlayerId, myPlayer, viewport, decoding,
                   renderLoops>>

HandleServerMessageByShape(message, keys) ==
    CASE message.action = "join_game"     ->
             HandleJoinGameResponse(message, keys)
      [] message.action = "player_joined" -> HandlePlayerJoined(message)
      [] message.action = "players_moved" -> HandlePlayersMoved(message, keys)
      [] "playerId" \in DOMAIN message    -> HandlePlayerLeft(message)
      [] OTHER -> UNCHANGED <<entityVars, decoding, renderLoops>>

\* handleServerMessage
HandleServerMessage(message, keys) ==
    CASE message.action = "join_game"     ->
             HandleJoinGameResponse(message, keys)
      [] message.action = "player_joined" -> HandlePlayerJoined(message)
      [] message.action = "players_moved" -> HandlePlayersMoved(message, keys)
      [] message.action = "player_left"   -> HandlePlayerLeft(message)
      [] OTHER -> UNCHANGED <<entityVars, decoding, renderLoops>>

\* the exploration stops before a counter passes its bound
WithinBounds(dec, loops) ==
    /\ loops <= MaxLoops
    /\ \A e \in BagToSet(dec) : InFlight(dec, e.key) <= MaxInFlight

\* ws.onmessage of an open socket; keys is the order in which the JSON text
\* of the message lists the ids of message.players (<<>> when the message
\* has no players table)
WsMessage(message, keys) ==
    /\ \E i \in 1..Len(sockets) : sockets[i] = "OPEN"
    /\ HandleServerMessage(message, keys)
    /\ WithinBounds(decoding', renderLoops')
    /\ prev' = players
    /\ ev' = [type |-> "message", message |-> message, keys |-> keys]
    /\ out' = <<>>
    /\ UNCHANGED <<avatarImageCache, failed, connVars, pressedKeys>>

-----------------------------------------------------------------------------
(* Inbound messages explored.                                              *)

PlayerIds == {"p1", "p2"}

P1a == [id |-> "p1", username |-> "Dawn", x |-> 100, y |-> 100,
        facing |-> "south", avatar |-> "a", animationFrame |-> 0]
\* the animation-frame index is optional
P1b == [id |-> "p1", username |-> "Dawn", x |-> 1500, y |-> 2048,
        facing |-> "west", avatar |-> "a"]
P2a == [id |-> "p2", username |-> "Eve", x |-> 2048, y |-> 0,
        facing |-> "east", avatar |-> "a", animationFrame |-> 1]
P2b == [id |-> "p2", username |-> "Eve", x |-> 1024, y |-> 1024,
        facing |-> "south", avatar |-> "b"]

PlayerRecords == {P1a, P1b, P2a, P2b}

\* an animation-frame index past the two east frames of AvatarWalk
P2c == [id |-> "p2", username |-> "Eve", x |-> 1024, y |-> 1024,
        facing |-> "east", avatar |-> "a", animationFrame |-> 2]
\* a record of position, facing and avatar only, without id and username
P2Bare == [x |-> 100, y |-> 100, facing |-> "south", avatar |-> "a"]
\* a facing for which AvatarWalk has no frame list
P2North == [id |-> "p2", username |-> "Eve", x |-> 1024, y |-> 1024,
            facing |-> "north", avatar |-> "a", animationFrame |-> 0]

AvatarSouth == [name |-> "a", frames |-> [south |-> <<"s0">>]]
AvatarSouthNew == [name |-> "a", frames |-> [south |-> <<"s1">>]]
\* an avatar with frames for no direction
AvatarBare == [name |-> "b", frames |-> [d \in {} |-> <<>>]]

\* every id -> record table over the explored records
PlayerTables ==
    UNION {{t \in [S -> PlayerRecords] : \A id \in S : t[id].id = id} :
              S \in SUBSET PlayerIds}

JoinOk(playerId, pls, avs) ==
    [action |-> "join_game", success |-> TRUE, playerId |-> playerId,
     players |-> pls, avatars |-> avs]
JoinRejected ==
    [action |-> "join_game", success |-> FALSE, error |-> "full"]
PlayerJoined(player, avatar) ==
    [action |-> "player_joined", player |-> player, avatar |-> avatar]
PlayersMoved(pls) == [action |-> "players_moved", players |-> pls]
PlayerLeft(id) == [action |-> "player_left", playerId |-> id]
Unknown == [action |-> "ping"]
\* an action this client does not know, with a payload
UnknownKick == [action |-> "player_kicked", playerId |-> "p1"]
\* a rejection that carries a snapshot all the same
JoinRejectedWithState(playerId, pls, avs) ==
    [action |-> "join_game", success |-> FALSE, error |-> "full",
     playerId |-> playerId, players |-> pls, avatars |-> avs]

Table1(k, v) == [i \in {k} |-> v]

\* every order in which the elements of S can be listed
RECURSIVE Orders(_)
Orders(S) ==
    IF S = {} THEN {<<>>}
    ELSE UNION {{<<x>> \o s : s \in Orders(S \ {x})} : x \in S}

\* the orders in which a message can list the ids of its players table
KeyOrders(message) ==
    IF "players" \in DOMAIN message THEN Orders(DOMAIN message.players)
    ELSE {<<>>}

\* one inbound message of the set, in any key order
Receive(messages) ==
    \E message \in messages :
        \E keys \in KeyOrders(message) : WsMessage(message, keys)

AvatarWalk ==
    [name |-> "a", frames |-> [south |-> <<"s0">>, east |-> <<"e0", "e1">>]]

SpriteMessages ==
    {JoinOk("p1", Table1("p1", P1a), Table1("a", AvatarWalk)),
     PlayerJoined(P2a, AvatarWalk),
     PlayerJoined(P2a, AvatarSouthNew)}

RenderMessages ==
    {JoinOk("p1", Table1("p1", P1a), Table1("a", AvatarWalk))}
    \cup {PlayersMoved(Table1(p.id, p)) : p \in {P1b, P2b, P2c, P2North}}
    \cup {PlayersMoved(Table1("p2", P2Bare)),
          PlayersMoved(Table1("p1", P1a)), PlayerLeft("p1")}

SessionMessages ==
    {JoinOk("p1", Table1("p1", P1a), Table1("a", AvatarSouth))}

EntityMessages ==
    {JoinOk("p1", t, Table1("a", AvatarSouth)) :
        t \in {Table1("p1", P1a), Table1("p2", P2a),
               ObjectAssign(Table1("p1", P1b), Table1("p2", P2b))}}
    \cup {JoinRejected, Unknown, UnknownKick,
          JoinRejectedWithState("p2", Table1("p2", P2a),
                                Table1("b", AvatarBare))}
    \cup {PlayerJoined(p, AvatarSouth) : p \in PlayerRecords \ {P2b}}
    \cup {PlayerJoined(P2b, AvatarBare)}
    \cup {PlayersMoved(t) : t \in PlayerTables}
    \cup {PlayerLeft(id) : id \in PlayerIds \cup {"p3"}}

-----------------------------------------------------------------------------
(* The state after new GameClient(): the constructor runs setupCanvas and  *)
(* connectToServer, so the viewport has the canvas (= world) size and the  *)
(* first socket is connecting.                                             *)

Init ==
    /\ players = <<>>
    /\ playerKeys = <<>>
    /\ avatars = <<>>
    /\ myPlayerId = Null
    /\ myPlayer = NoPlayer
    /\ avatarImageCache = <<>>
    /\ viewport = [x |-> 0, y |-> 0, width |-> worldWidth,
                   height |-> worldHeight]
    /\ sockets = <<"CONNECTING">>
    /\ ws = 1
    /\ reconnectAttempts = 0
    /\ pressedKeys = {}
    /\ timers = <<>>
    /\ decoding = EmptyBag
    /\ renderLoops = 0
    /\ ev = [type |-> "init"]
    /\ out = <<>>
    /\ delays = <<>>
    /\ opens = 0
    /\ failed = {}
    /\ prev = <<>>

KeyEvent ==
    \E code \in KeyCodes : HandleKeyDown(code) \/ HandleKeyUp(code)

SocketEvent ==
    \/ \E i \in 1..Len(sockets) : WsOpen(i)
    \/ \E i \in 1..Len(sockets) : WsClose(i)
    \/ \E k \in 1..Len(timers) : TimerFire(k)

ImageEvent ==
    \E e \in BagToSet(decoding) : ImageLoad(e) \/ ImageError(e)

NextInput == KeyEvent \/ SocketEvent

\* keyboard and transport events, no inbound message
SpecInput == Init /\ [][NextInput]_vars

\* inbound messages over the player tables, on a transport that stays up
NextEntity ==
    \/ \E i \in 1..Len(sockets) : WsOpen(i)
    \/ Receive(EntityMessages)
    \/ ImageEvent

SpecEntity == Init /\ [][NextEntity]_vars

\* snapshots and joins that name the same avatar again, with the image
\* decodes they start, on a transport that stays up
NextSprite ==
    \/ \E i \in 1..Len(sockets) : WsOpen(i)
    \/ Receive(SpriteMessages)
    \/ ImageEvent

SpecSprite == Init /\ [][NextSprite]_vars

\* a session that is lost and re-established: the server answers each join
\* request at most once, with a snapshot
NextSession ==
    \/ SocketEvent
    \/ renderLoops < opens /\ Receive(SessionMessages)
    \/ ImageEvent
    \/ RenderFrame

SpecSession == Init /\ [][NextSession]_vars

\* render frames over players that face west, run past the frame list,
\* lack an avatar, a frame list or the id field
NextRender ==
    \/ \E i \in 1..Len(sockets) : WsOpen(i)
    \/ Receive(RenderMessages)
    \/ ImageEvent
    \/ RenderFrame

SpecRender == Init /\ [][NextRender]_vars

-----------------------------------------------------------------------------
(* Properties.                                                             *)

IsMessage(e, action) == e.type = "message" /\ e.message.action = action

\* C1: handling players_moved stores, for every id of the delta, exactly the
\* delta's record: no field of the record stored before survives.
C1_MovedReplacesRecord ==
    [][IsMessage(ev', "players_moved") =>
          \A id \in DOMAIN ev'.message.players :
              /\ id \in DOMAIN players'
              /\ players'[id] = ev'.message.players[id]]_vars

\* a delta has replaced a stored record that had an animationFrame by one
\* that has none
C1_Witness ==
    /\ IsMessage(ev, "players_moved")
    /\ \E id \in DOMAIN ev.message.players \cap DOMAIN prev :
          /\ "animationFrame" \in DOMAIN prev[id]
          /\ "animationFrame" \notin DOMAIN ev.message.players[id]
          /\ players[id] = ev.message.players[id]

\* C2: handling players_moved keeps every player whose id is not in the
\* delta, unchanged, and leaves the avatar table and the local player id
\* as they were.
C2_MovedKeepsOthers ==
    [][IsMessage(ev', "players_moved") =>
          /\ \A id \in DOMAIN players \ DOMAIN ev'.message.players :
                 id \in DOMAIN players' /\ players'[id] = players[id]
          /\ avatars' = avatars
          /\ myPlayerId' = myPlayerId]_vars

\* a non-empty delta was applied and a player it does not name is still
\* stored as before
C2_Witness ==
    /\ IsMessage(ev, "players_moved")
    /\ DOMAIN ev.message.players # {}
    /\ \E id \in DOMAIN prev \ DOMAIN ev.message.players :
          id \in DOMAIN players /\ players[id] = prev[id]

\* C3: between any two callbacks (where a render frame can run) the camera
\* is inside the world on both axes, and is 0 on an axis on which the world
\* is no larger than the viewport.
C3_ViewportClamped ==
    /\ 0 <= viewport.x /\ viewport.x <= worldWidth - viewport.width
    /\ 0 <= viewport.y /\ viewport.y <= worldHeight - viewport.height
    /\ (worldWidth <= viewport.width => viewport.x = 0)
    /\ (worldHeight <= viewport.height => viewport.y = 0)

\* the camera was recentred on a local player whose centred camera position
\* lies outside the world
C3_Witness ==
    /\ IsMessage(ev, "players_moved")
    /\ myPlayerId \in DOMAIN ev.message.players
    /\ myPlayer = ev.message.players[myPlayerId]
    /\ myPlayer.x - (viewport.width \div 2) > worldWidth - viewport.width
    /\ viewport.x = 0

Backoff == <<2000, 4000, 6000, 8000, 10000>>

IsPrefix(s, t) == Len(s) <= Len(t) /\ \A j \in 1..Len(s) : s[j] = t[j]

Closed(socks) == {i \in 1..Len(socks) : socks[i] = "CLOSED"}

\* the initial attempt and all five retries have failed
AllAttemptsFailed ==
    /\ opens = 0
    /\ Len(sockets) = Len(Backoff) + 1
    /\ Closed(sockets) = 1..Len(sockets)

\* C4: while no connection has ever opened, the k-th failure schedules
\* the k-th of the delays 2000, 4000, 6000, 8000, 10000; once the fifth
\* retry has failed no timer is pending and no socket or timer is ever
\* created again.
C4_BackoffSequence ==
    [][/\ opens' = 0 =>
             /\ IsPrefix(delays', Backoff)
             /\ Len(delays') = Min(Cardinality(Closed(sockets')), Len(Backoff))
       /\ AllAttemptsFailed =>
             /\ delays = Backoff
             /\ timers = <<>>
             /\ UNCHANGED <<sockets, ws, timers, delays>>]_vars

\* six attempts failed in a row
C4_Witness ==
    /\ AllAttemptsFailed
    /\ delays = Backoff
    /\ timers = <<>>
    /\ ev = [type |-> "close", socket |-> Len(Backoff) + 1]

\* C5: every onopen resets the attempt counter to 0, the reconnect scheduled
\* when a connection that had opened closes waits 2000 ms, and the counter
\* never exceeds 5.
C5_ResetOnOpen ==
    [][/\ ev'.type = "open" => reconnectAttempts' = 0
       /\ \A i \in 1..Len(sockets) :
             (sockets[i] = "OPEN" /\ sockets'[i] = "CLOSED") =>
                 /\ timers' = Append(timers, 2000)
                 /\ delays' = Append(delays, 2000)
       /\ reconnectAttempts' <= 5]_vars

\* two failures (2000, 4000), then an open, then a close that waits 2000
C5_Witness ==
    /\ ev.type = "close"
    /\ opens = 1
    /\ delays = <<2000, 4000, 2000>>
    /\ reconnectAttempts = 1

\* C6: a cache key that has an image in flight is not decoded again, so no
\* key ever has two images in flight.
C6_OneDecodePerKey ==
    \A e \in BagToSet(decoding) : InFlight(decoding, e.key) <= 1

\* C7: once a decode of a key has failed the key is never cached and no
\* further decode of it is started.
C7_NoRetryAfterFailure ==
    [][\A key \in failed :
          /\ key \notin DOMAIN avatarImageCache'
          /\ InFlight(decoding', key) <= InFlight(decoding, key)]_vars

\* C8: a key-down of a movement key that is already held sends nothing.
C8_NoMoveOnKeyRepeat ==
    [][(ev'.type = "keydown" /\ ev'.code \in pressedKeys) => out' = <<>>]_vars

\* C9: with the channel open, a key-up of a movement key sends one stop when
\* it leaves the held set empty and sends nothing otherwise.
C9_StopWhenNoneHeld ==
    [][(ev'.type = "keyup" /\ ev'.code \in DOMAIN movementKeys /\ IsOpen) =>
          out' = IF pressedKeys' = {} THEN <<[action |-> "stop"]>>
                 ELSE <<>>]_vars

\* up was released while left is still held, and nothing was sent
C9_Witness ==
    /\ ev = [type |-> "keyup", code |-> "ArrowUp"]
    /\ IsOpen
    /\ pressedKeys = {"ArrowLeft"}
    /\ out = <<>>

IsKeyEvent(e) == e.type \in {"keydown", "keyup"}

\* C10: a key event while the channel is not open sends nothing, and no
\* other callback sends a move or stop: opening a connection sends the join
\* request alone, whatever keys are held.
C10_IntentsDroppedWhileClosed ==
    [][/\ (IsKeyEvent(ev') /\ ~IsOpen) => out' = <<>>
       /\ (~IsKeyEvent(ev')) =>
             out' = IF ev'.type = "open"
                    THEN <<[action |-> "join_game", username |-> "Dawn"]>>
                    ELSE <<>>]_vars

\* a reconnect has opened while a movement key is held, and only the join
\* request was sent
C10_Witness ==
    /\ ev.type = "open"
    /\ opens = 2
    /\ pressedKeys # {}
    /\ out = <<[action |-> "join_game", username |-> "Dawn"]>>

\* C11: a join_game response with success = false changes neither the
\* player and avatar tables, the local player id, the camera, the sockets,
\* the attempt counter and the timers, nor the number of render loops.
C11_RejectedJoinChangesNothing ==
    [][(IsMessage(ev', "join_game") /\ ~ev'.message.success) =>
          UNCHANGED <<players, playerKeys, avatars, myPlayerId, myPlayer,
                      viewport, avatarImageCache, decoding, sockets, ws,
                      reconnectAttempts, timers, renderLoops>>]_vars

\* a rejection that carries another snapshot arrived after a successful
\* join, and the tables still hold what they held
C11_Witness ==
    /\ IsMessage(ev, "join_game")
    /\ ~ev.message.success
    /\ "players" \in DOMAIN ev.message
    /\ myPlayerId # Null
    /\ players # <<>>
    /\ players # ev.message.players
    /\ myPlayerId # ev.message.playerId

\* the camera centred on a position and clamped to the world
CameraOn(player) ==
    [x |-> Max(0, Min(player.x - (worldWidth \div 2), 0)),
     y |-> Max(0, Min(player.y - (worldHeight \div 2), 0)),
     width |-> worldWidth, height |-> worldHeight]

\* C12: a join_game response with success = true leaves exactly the
\* snapshot's players and avatars in the tables, records the local player
\* id and, in the same step, puts the camera on the local player's snapshot
\* position, clamped to the world.
C12_JoinReplacesTables ==
    [][(IsMessage(ev', "join_game") /\ ev'.message.success) =>
          /\ players' = ev'.message.players
          /\ playerKeys' = ev'.keys
          /\ avatars' = ev'.message.avatars
          /\ myPlayerId' = ev'.message.playerId
          /\ ev'.message.playerId \in DOMAIN ev'.message.players =>
                 viewport' =
                     CameraOn(ev'.message.players[ev'.message.playerId])]_vars

\* a snapshot has dropped a player that was stored before it
C12_Witness ==
    /\ IsMessage(ev, "join_game")
    /\ ev.message.success
    /\ DOMAIN prev \ DOMAIN ev.message.players # {}
    /\ players = ev.message.players
    /\ avatars = ev.message.avatars
    /\ myPlayerId \in DOMAIN players
    /\ viewport = CameraOn(players[myPlayerId])

\* C13: a players_moved delta that names the local player makes that record
\* the camera target and recentres the camera on it in the same step; any
\* other delta leaves the camera and its target unchanged.
C13_RecentreOnLocalMove ==
    [][IsMessage(ev', "players_moved") =>
          IF myPlayerId # Null /\ myPlayerId \in DOMAIN ev'.message.players
          THEN /\ myPlayer' = ev'.message.players[myPlayerId]
               /\ viewport' = CameraOn(ev'.message.players[myPlayerId])
          ELSE /\ myPlayer' = myPlayer
               /\ viewport' = viewport]_vars

\* the local player has moved to another position and the camera follows
C13_Witness ==
    /\ IsMessage(ev, "players_moved")
    /\ myPlayerId \in DOMAIN ev.message.players
    /\ myPlayerId \in DOMAIN prev
    /\ prev[myPlayerId].x # ev.message.players[myPlayerId].x
    /\ myPlayer = ev.message.players[myPlayerId]
    /\ viewport = CameraOn(myPlayer)

KnownActions == {"join_game", "player_joined", "players_moved", "player_left"}

\* C14: a message whose action is none of the four known ones changes
\* nothing of the client's state.
C14_UnknownMessageIgnored ==
    [][(ev'.type = "message" /\ ev'.message.action \notin KnownActions) =>
          UNCHANGED <<players, playerKeys, avatars, myPlayerId, myPlayer,
                      viewport, avatarImageCache, decoding, sockets, ws,
                      reconnectAttempts, timers, pressedKeys,
                      renderLoops>>]_vars

\* an unknown message that names a stored player was received
C14_Witness ==
    /\ ev.type = "message"
    /\ ev.message.action \notin KnownActions
    /\ "playerId" \in DOMAIN ev.message
    /\ ev.message.playerId \in DOMAIN players

\* C18: player_left removes the named id from the player table and nothing
\* else: the other players and the avatars stay, and a message that names
\* an absent id changes nothing.
C18_LeftRemovesOnlyNamed ==
    [][IsMessage(ev', "player_left") =>
          /\ DOMAIN players' = DOMAIN players \ {ev'.message.playerId}
          /\ \A id \in DOMAIN players' : players'[id] = players[id]
          /\ UNCHANGED <<avatars, myPlayerId, viewport>>
          /\ ev'.message.playerId \notin DOMAIN players =>
                 players' = players]_vars

\* one of two stored players has left
C18_Witness ==
    /\ IsMessage(ev, "player_left")
    /\ ev.message.playerId \in DOMAIN prev
    /\ ev.message.playerId \notin DOMAIN players
    /\ players # <<>>

Live(socks) == {i \in 1..Len(socks) : socks[i] \in {"CONNECTING", "OPEN"}}

\* C20: there is never more than one thing that can lead to a connection:
\* the sockets that are connecting or open and the pending reconnect timers
\* number at most one together, so no timer is pending while a socket is
\* live and one close never leaves two timers.
C20_OneSocketOrTimer ==
    Cardinality(Live(sockets)) + Len(timers) <= 1

\* a connection that had opened was lost and its one reconnect timer is
\* pending
C20_Witness ==
    /\ ev.type = "close"
    /\ opens = 1
    /\ Live(sockets) = {}
    /\ Len(timers) = 1
    /\ Len(sockets) > 1

\* C19: at most one render loop is live at any time.
C19_OneRenderLoop == renderLoops <= 1

\* the player can be drawn from the frame list of direction dir: it has an
\* avatar with a non-empty frame list for dir and is inside the culling
\* margin
Drawable(p, dir) ==
    /\ {"avatar", "facing"} \subseteq DOMAIN p
    /\ p.avatar \in DOMAIN avatars
    /\ "frames" \in DOMAIN avatars[p.avatar]
    /\ dir \in DOMAIN avatars[p.avatar].frames
    /\ Len(avatars[p.avatar].frames[dir]) > 0
    /\ ~Culled(p, viewport)

\* the cache key of the frame of direction dir that the player's animation
\* index, clamped into the frame list, selects
ClampedKey(p, dir) ==
    CacheKey(avatars[p.avatar].name, dir,
             Min(FrameOrZero(p), Len(avatars[p.avatar].frames[dir]) - 1))

\* C15: a render frame that runs to its end draws every west-facing player
\* whose avatar has the east frame of the player's index in the cache: the
\* sprite is looked up under the east frame's key.
C15_WestDrawnFromEastFrame ==
    (ev.type = "frame" /\ ~ev.threw) =>
        \A id \in DOMAIN players :
            (/\ Drawable(players[id], "east")
             /\ players[id].facing = "west"
             /\ ClampedKey(players[id], "east") \in DOMAIN avatarImageCache)
            => id \in ev.drawn

\* C16: a render frame that runs to its end draws every player (not facing
\* west) whose frame at the index clamped into [0, frameCount - 1] is in the
\* cache: the clamped index is the one used for the cache lookup, and an
\* absent index is 0.
C16_ClampedIndexLookedUp ==
    (ev.type = "frame" /\ ~ev.threw) =>
        \A id \in DOMAIN players :
            (/\ "facing" \in DOMAIN players[id]
             /\ players[id].facing # "west"
             /\ Drawable(players[id], players[id].facing)
             /\ ClampedKey(players[id], players[id].facing)
                    \in DOMAIN avatarImageCache)
            => id \in ev.drawn

\* C17: every render frame of a live loop schedules the next one, whatever
\* the tables and the cache hold: a frame never ends a loop.
C17_FrameSchedulesNext ==
    [][ev'.type = "frame" => renderLoops' = renderLoops]_vars

====
